---- MODULE Spec2Model ----
(***************************************************************************)
(* Campus-Bus-Tracker: the live-location store of the backend.             *)
(*                                                                         *)
(* The three driver endpoints of controllers/locationController.js         *)
(* (startLocationSharing, stopLocationSharing, updateLocation) run on the  *)
(* Node event loop: a handler runs without interruption between two        *)
(* `await`s and may be interleaved with other handlers at every `await`.   *)
(* Each action below is one database operation of a handler together with  *)
(* the synchronous code that follows it up to the next `await`.  Reads of   *)
(* tables that no action of this specification writes (routes, bus_stops)  *)
(* are folded into the step that follows them.                             *)
(*                                                                         *)
(* Geography is restricted to one meridian: a latitude is a number of      *)
(* steps of StepMeters metres, so the haversine distance of two points is  *)
(* the absolute difference of their latitudes times StepMeters.            *)
(* Timestamps are abstracted: an ETA is stored as its offset from "now"    *)
(* in seconds.                                                             *)
(***************************************************************************)
EXTENDS Integers, Sequences, FiniteSets, TLC

\* null of an identifier, and null of a number
NULL == "null"
NONE == -1

\* ---- bounds ------------------------------------------------------------
\* requests per behaviour, and requests being handled at the same time
MaxReq == 2
MaxInFlight == 2

\* ---- the fixed world of the model ---------------------------------------
Buses == {"b1"}
Drivers == {"d1", "d2"}
Routes == {"r1", "r2"}
RouteInputs == {NULL, "r1", "r2", "rX"}
Positions == {0, 4, 8}
SpeedInputs == {NONE, 20}
StepMeters == 20
MinStopDistance == 100

Reqs == 1..MaxReq

\* the id of the row and of the trip of a session started before the
\* behaviour begins (rows and trips made in it carry their request's number)
SeedId == MaxReq + 1

VARIABLES buses, busStops, liveLocations, tripLogs, locationHistory, events, req, nreq,
          locator, estimator, hub

\* the calls of the stop locator and of the ETA estimator under study, and the
\* socket hub: the location controller's handlers leave them alone
side == <<locator, estimator, hub>>

vars == <<buses, busStops, liveLocations, tripLogs, locationHistory, events, req, nreq,
          locator, estimator, hub>>

\* ---- pure helpers -------------------------------------------------------
Abs(x) == IF x < 0 THEN -x ELSE x

\* BusStop.prototype.calculateDistanceTo / LiveBusLocation.prototype.calculateDistanceTo
\* (haversine, metres), on one meridian.
calculateDistanceTo(lat1, lat2) == Abs(lat1 - lat2) * StepMeters

\* `speedKmh || 0` of updateLocation
OrZero(v) == IF v = NONE THEN 0 ELSE v

\* findAll({where: {routeId}, order: [['stopOrder','ASC']]})
RECURSIVE SortByOrder(_)
SortByOrder(S) ==
  IF S = {} THEN <<>>
  ELSE LET m == CHOOSE s \in S : \A t \in S : s.stopOrder <= t.stopOrder
       IN <<m>> \o SortByOrder(S \ {m})

\* findByRouteId without its where clause
findByRouteId_AnyRoute(routeId) == SortByOrder(busStops)

\* BusStop.findByRouteId, and the findAll of findNextStop
findByRouteId(routeId) == SortByOrder({s \in busStops : s.routeId = routeId})

\* the forEach of findNextStop taking the later of two equally distant stops
RECURSIVE NextStopLoop_LastOnTie(_, _, _, _)
NextStopLoop_LastOnTie(stops, i, lat, acc) ==
  IF i > Len(stops) THEN acc[1]
  ELSE LET distance == calculateDistanceTo(stops[i].latitude, lat)
           better == (acc[2] = -1 \/ distance <= acc[2]) /\ distance > MinStopDistance
       IN NextStopLoop_LastOnTie(stops, i + 1, lat,
                                 IF better THEN <<stops[i].id, distance>> ELSE acc)

\* the forEach of BusStop.findNextStop: acc = <<nextStop, minDistance>>,
\* minDistance = -1 stands for Infinity
RECURSIVE NextStopLoop(_, _, _, _)
NextStopLoop(stops, i, lat, acc) ==
  IF i > Len(stops) THEN acc[1]
  ELSE LET distance == calculateDistanceTo(stops[i].latitude, lat)
           better == (acc[2] = -1 \/ distance < acc[2]) /\ distance > MinStopDistance
       IN NextStopLoop(stops, i + 1, lat,
                       IF better THEN <<stops[i].id, distance>> ELSE acc)

findNextStop(routeId, lat) == NextStopLoop(findByRouteId(routeId), 1, lat, <<NULL, -1>>)

\* BusStop.findByPk: the set holding the stop, empty when there is none
StopById(id) == {s \in busStops : s.id = id}

\* (distanceKm / speedKmh) * 60 minutes, kept in whole seconds
EtaSeconds(distanceMeters, speedKmh) == (distanceMeters * 36) \div (speedKmh * 10)

\* LiveBusLocation.prototype.updateETA on an instance; `dirty` collects the
\* attributes the instance has changed (Sequelize saves changed attributes only)
updateETA(inst) ==
  IF inst.nextStopId = NULL \/ inst.speedKmh = NONE \/ inst.speedKmh <= 0
  THEN [inst EXCEPT !.etaToNextStop = NONE,
                    !.dirty = IF inst.etaToNextStop = NONE THEN @ ELSE @ \cup {"etaToNextStop"}]
  ELSE LET found == StopById(inst.nextStopId) IN
       IF found = {}
       THEN [inst EXCEPT !.etaToNextStop = NONE,
                         !.dirty = IF inst.etaToNextStop = NONE THEN @ ELSE @ \cup {"etaToNextStop"}]
       ELSE LET nextStop == CHOOSE s \in found : TRUE
                d == calculateDistanceTo(inst.latitude, nextStop.latitude) IN
            [inst EXCEPT !.distanceToNextStop = d,
                         !.etaToNextStop = EtaSeconds(d, inst.speedKmh),
                         !.dirty = @ \cup {"distanceToNextStop", "etaToNextStop"}]

\* LiveBusLocation.prototype.updateNextStop on an instance
updateNextStop(inst) ==
  IF inst.currentRouteId = NULL THEN inst
  ELSE LET nextStop == findNextStop(inst.currentRouteId, inst.latitude) IN
       IF nextStop # NULL
       THEN updateETA([inst EXCEPT !.nextStopId = nextStop,
                        !.dirty = IF nextStop = inst.nextStopId THEN @ ELSE @ \cup {"nextStopId"}])
       ELSE inst

\* ---- the tables ---------------------------------------------------------
RowOf(busId) == {l \in liveLocations : l.busId = busId}

\* findByBusId with the sharing filter inverted
findByBusId_InvertedFilter(busId) ==
  {l \in liveLocations : l.busId = busId /\ ~l.isLocationSharing}

\* LiveBusLocation.findByBusId: where {busId, isLocationSharing: true}; the
\* set of matching rows, empty when findOne yields null
findByBusId(busId) == {l \in liveLocations : l.busId = busId /\ l.isLocationSharing}

\* the bus has an active sharing session
Sharing(busId) == \E l \in liveLocations : l.busId = busId /\ l.isLocationSharing
SharingIn(locs, busId) == \E l \in locs : l.busId = busId /\ l.isLocationSharing

NewRow(id, busId, driverId, lat, speed, routeId) ==
  [id |-> id, busId |-> busId, driverId |-> driverId, latitude |-> lat,
   speedKmh |-> speed, isLocationSharing |-> TRUE, currentRouteId |-> routeId,
   nextStopId |-> NULL, distanceToNextStop |-> NONE, etaToNextStop |-> NONE]

\* live_bus_locations without the unique index
UniqueBusIdViolated_NoIndex(busId) == FALSE

\* the unique index on bus_id of live_bus_locations
UniqueBusIdViolated(busId) == RowOf(busId) # {}

\* a row as a model instance
AsInstance(row) ==
  [id |-> row.id, busId |-> row.busId, driverId |-> row.driverId,
   latitude |-> row.latitude, speedKmh |-> row.speedKmh,
   isLocationSharing |-> row.isLocationSharing, currentRouteId |-> row.currentRouteId,
   nextStopId |-> row.nextStopId, distanceToNextStop |-> row.distanceToNextStop,
   etaToNextStop |-> row.etaToNextStop, dirty |-> {}]

\* a save() that writes every attribute of the instance, changed or not
SaveFields_AllAttributes(row, inst, fields) ==
  [row EXCEPT !.driverId = inst.driverId, !.latitude = inst.latitude,
              !.speedKmh = inst.speedKmh, !.currentRouteId = inst.currentRouteId,
              !.isLocationSharing = inst.isLocationSharing, !.nextStopId = inst.nextStopId,
              !.distanceToNextStop = inst.distanceToNextStop,
              !.etaToNextStop = inst.etaToNextStop]

\* instance.save(): UPDATE ... SET <changed attributes> WHERE id = instance.id
SaveFields(row, inst, fields) ==
  [row EXCEPT
     !.isLocationSharing = IF "isLocationSharing" \in fields THEN inst.isLocationSharing ELSE @,
     !.nextStopId = IF "nextStopId" \in fields THEN inst.nextStopId ELSE @,
     !.distanceToNextStop = IF "distanceToNextStop" \in fields THEN inst.distanceToNextStop ELSE @,
     !.etaToNextStop = IF "etaToNextStop" \in fields THEN inst.etaToNextStop ELSE @]

saveLocation(inst) ==
  {IF l.id = inst.id THEN SaveFields(l, inst, inst.dirty) ELSE l : l \in liveLocations}

\* LiveBusLocation.upsert({busId, ...locationData}): insert, or update the row
\* that conflicts on the unique bus_id
upsertRow(id, busId, data) ==
  IF RowOf(busId) = {}
  THEN NewRow(id, busId, data.driverId, data.latitude, data.speedKmh, data.currentRouteId)
  ELSE LET old == CHOOSE l \in liveLocations : l.busId = busId IN
       [old EXCEPT !.driverId = data.driverId, !.latitude = data.latitude,
                   !.speedKmh = data.speedKmh, !.currentRouteId = data.currentRouteId,
                   !.isLocationSharing = data.isLocationSharing]

upsert(id, busId, data) ==
  {l \in liveLocations : l.busId # busId} \cup {upsertRow(id, busId, data)}

\* the second element of upsert's result: a boolean on dialects that can tell
\* an insert from an update, null on SQLite and PostgreSQL
CreatedOutcomes(existed) == IF existed THEN {FALSE} ELSE {TRUE, FALSE}

\* ---- requests -----------------------------------------------------------
IdleReq ==
  [kind |-> "none", pc |-> "idle", user |-> NULL, busId |-> NULL, routeId |-> NULL,
   latitude |-> 0, speedKmh |-> NONE, result |-> "pending",
   busRouteId |-> NULL, finalRouteId |-> NULL, tripId |-> 0,
   location |-> {}, activeTrip |-> 0,
   writes |-> 0, emitted |-> 0, accepted |-> FALSE,
   activeAtArrival |-> FALSE, rowAtArrival |-> FALSE, flipped |-> FALSE,
   overlapped |-> FALSE]

Done(r) == req[r].pc = "done"
InFlight(r) == req[r].pc \notin {"idle", "done"}

\* res.status(...).json(...): the handler ends; its locals die, and so does the
\* body of a request that was turned away
Respond(rq, result) ==
  [rq EXCEPT !.pc = "done", !.result = result, !.busRouteId = NULL,
             !.finalRouteId = NULL, !.location = {}, !.activeTrip = 0,
             !.routeId = IF rq.kind = "start" THEN @ ELSE NULL,
             !.latitude = IF rq.accepted THEN @ ELSE 0,
             !.speedKmh = IF rq.accepted THEN @ ELSE NONE]

\* note, for the requests in flight on a bus, that its sharing flag changed
\* when it is set or cleared by another request
NoteFlips(rs, newLocs, actor) ==
  [x \in Reqs |->
     IF x # actor /\ rs[x].pc \notin {"idle", "done"}
        /\ SharingIn(newLocs, rs[x].busId) # Sharing(rs[x].busId)
     THEN [rs[x] EXCEPT !.flipped = TRUE] ELSE rs[x]]

\* note, when position report r arrives, the reports of the same bus that are
\* in flight: they and r overlap
NoteOverlaps(rs, r) ==
  LET others == {x \in Reqs \ {r} : /\ rs[x].pc \notin {"idle", "done"}
                                     /\ rs[x].kind = "update" /\ rs[x].busId = rs[r].busId}
  IN IF rs[r].kind # "update" THEN rs
     ELSE [x \in Reqs |->
             IF x \in others \/ (x = r /\ others # {})
             THEN [rs[x] EXCEPT !.overlapped = TRUE] ELSE rs[x]]

\* socketService.emitToAll(event, data)
emitToAll(event, data) == Append(events, [event |-> event, data |-> data])

\* ---- ETACalculator ---------------------------------------------------------
\* Distances are in metres, speeds in km/h; a speed computed by the estimator
\* is a fraction <<numerator, denominator>>.  An eta is its offset from "now"
\* in whole seconds; the speedKmh of a result is in hundredths of a km/h and
\* its distanceKm a multiple of 10 m, as Math.round(x * 100) / 100 leaves them.
AssumedSpeedKmh == 25
BufferMinutes == 2
MovingSpeedKmh == 5
MaxPlausibleSpeedKmh == 120
ArrivingMeters == 100
HistoryLimit == 10

\* Math.round of the fraction n / d, d > 0, n >= 0
Round(n, d) == (2 * n + d) \div (2 * d)

\* the result of calculateETA for a distance that is 0, negative or unknown
NoETA ==
  [eta |-> NONE, durationMinutes |-> 0, distanceKm |-> NONE, speedKmh |-> NONE,
   isRealtime |-> FALSE, confidence |-> "low", status |-> "none"]

\* calculateETA without its guard on the distance
calculateETA_NoDistanceGuard(distance, speedKmh) ==
  LET speed == IF speedKmh[1] <= 0 THEN <<AssumedSpeedKmh, 1>> ELSE speedKmh
      tn == distance * 60 * speed[2] + BufferMinutes * 1000 * speed[1]
      td == 1000 * speed[1]
  IN [eta |-> (tn * 60) \div td, durationMinutes |-> Round(tn, td),
      distanceKm |-> Round(distance, 10) * 10, speedKmh |-> Round(100 * speed[1], speed[2]),
      isRealtime |-> speed[1] > 0,
      confidence |-> IF speed[1] > MovingSpeedKmh * speed[2] THEN "high" ELSE "medium",
      status |-> "none"]

\* ETACalculator.calculateETA(distanceKm, speedKmh), bufferMinutes = 2;
\* totalMinutes is the fraction tn / td
calculateETA(distance, speedKmh) ==
  IF distance = NONE \/ distance <= 0 THEN NoETA
  ELSE LET speed == IF speedKmh[1] <= 0 THEN <<AssumedSpeedKmh, 1>> ELSE speedKmh
           tn == distance * 60 * speed[2] + BufferMinutes * 1000 * speed[1]
           td == 1000 * speed[1]
       IN [eta |-> (tn * 60) \div td, durationMinutes |-> Round(tn, td),
           distanceKm |-> Round(distance, 10) * 10, speedKmh |-> Round(100 * speed[1], speed[2]),
           isRealtime |-> speed[1] > 0,
           confidence |-> IF speed[1] > MovingSpeedKmh * speed[2] THEN "high" ELSE "medium",
           status |-> "none"]

\* speed > 0 && speed < 120 (null is neither)
PlausibleSpeed(speed) == speed > 0 /\ speed < MaxPlausibleSpeedKmh

\* the forEach of calculateSmoothedETA: <<weightedSum, totalWeight>> with
\* weight = index + 1 (indices from 0)
RECURSIVE WeightedLoop(_, _, _)
WeightedLoop(validSpeeds, i, acc) ==
  IF i > Len(validSpeeds) THEN acc
  ELSE WeightedLoop(validSpeeds, i + 1, <<acc[1] + validSpeeds[i] * i, acc[2] + i>>)

\* ETACalculator.calculateSmoothedETA(speedSamples, distanceKm)
calculateSmoothedETA(speedSamples, distance) ==
  IF Len(speedSamples) = 0 \/ distance = NONE \/ distance = 0
  THEN calculateETA(distance, <<0, 1>>)
  ELSE LET validSpeeds == SelectSeq(speedSamples, PlausibleSpeed) IN
       IF Len(validSpeeds) = 0 THEN calculateETA(distance, <<0, 1>>)
       ELSE calculateETA(distance, WeightedLoop(validSpeeds, 1, <<0, 0>>))

\* ETACalculator.calculateDistance (haversine), in metres
calculateDistance(lat1, lat2) == Abs(lat1 - lat2) * StepMeters

\* ETACalculator.estimateTimeToStop(busLocation, stopLocation, currentSpeed, recentSpeeds)
estimateTimeToStop(busLat, stopLat, currentSpeed, recentSpeeds) ==
  LET distance == calculateDistance(busLat, stopLat) IN
  IF distance < ArrivingMeters
  THEN [eta |-> 60, durationMinutes |-> 1, distanceKm |-> distance, speedKmh |-> NONE,
        isRealtime |-> TRUE, confidence |-> "high", status |-> "arriving"]
  ELSE calculateSmoothedETA(IF Len(recentSpeeds) > 0 THEN recentSpeeds ELSE <<currentSpeed>>,
                            distance)

\* no call of the estimator under study
NoEstimate ==
  [entry |-> "none", distance |-> NONE, samples |-> <<>>, currentSpeed |-> NONE,
   busLatitude |-> 0, stopLatitude |-> 0, result |-> NoETA]

\* ---- SocketService ---------------------------------------------------------
Sockets == {"c1", "c2"}
HubBusIds == {"b1", "b2"}
HubBusInputs == HubBusIds \cup {NULL}

\* the events the controllers hand to emitToAll
ControllerEvents == {"locationSharingStarted", "locationSharingStopped", "locationUpdate"}

\* sendBusStatus calls of one socket that may wait for their read of the
\* store at the same time
MaxPendingReads == 1

HubPairs == Sockets \X HubBusIds

\* the operation the hub served last
HubOp(name, socket, busId) == [name |-> name, socket |-> socket, busId |-> busId]

\* The hub before any connection.  sockets: each socket is new, connected or
\* closed; busSubscribers: the Map busId -> Set of socket ids (its domain is
\* the keys present); pending: the number of sendBusStatus calls of a socket
\* for a bus waiting for their read of the store; sent: what the last step
\* delivered; emitted: the socket.emit calls of the last step, delivered or
\* not; op: the operation of the last step; interested: the pairs
\* <<socket, bus>> of an observer that asked for a bus and has not taken it back.
NoHub ==
  [sockets |-> [c \in Sockets |-> "new"], busSubscribers |-> << >>,
   pending |-> [p \in HubPairs |-> 0], sent |-> {}, emitted |-> {},
   op |-> HubOp("none", NULL, NULL), interested |-> {}]

Message(socket, event, busId) ==
  [socket |-> socket, event |-> event, busId |-> busId, isActive |-> FALSE,
   error |-> FALSE]

\* the sendBusStatus calls of a socket waiting for their read of the store
RECURSIVE pendingReads(_, _, _)
pendingReads(h, socket, busIds) ==
  IF busIds = {} THEN 0
  ELSE LET b == CHOOSE x \in busIds : TRUE
       IN h.pending[<<socket, b>>] + pendingReads(h, socket, busIds \ {b})

\* connectedUsers: the sockets that passed the authentication and are open
connectedUsers(h) == {c \in Sockets : h.sockets[c] = "connected"}

\* busSubscribers.get(busId), empty when the key is absent
subscribersOf(h, busId) ==
  IF busId \in DOMAIN h.busSubscribers THEN h.busSubscribers[busId] ELSE {}

\* removeSubscriber without the clean-up of empty sets
removeSubscriber_KeepEmpty(m, busId, socket) ==
  [b \in DOMAIN m |-> IF b = busId THEN m[b] \ {socket} ELSE m[b]]

\* the Map after one socket left one of its sets, empty sets deleted
removeSubscriber(m, busId, socket) ==
  LET keys == {b \in DOMAIN m : b # busId \/ m[b] \ {socket} # {}}
  IN [b \in keys |-> IF b = busId THEN m[b] \ {socket} ELSE m[b]]

\* SocketService.emitToAll(event, data): io.emit reaches every open socket
hubEmitToAll(h, event, busId) ==
  {Message(c, event, busId) : c \in connectedUsers(h)}

\* emitToBusSubscribers that takes every open socket for a subscriber
emitToBusSubscribers_Everyone(h, busId, event) ==
  {Message(c, event, busId) : c \in connectedUsers(h)}

\* SocketService.emitToBusSubscribers(busId, event, data)
emitToBusSubscribers(h, busId, event) ==
  {Message(c, event, busId) : c \in subscribersOf(h, busId) \cap connectedUsers(h)}

\* no call of the stop locator under study
NoLocate == [routeId |-> NULL, latitude |-> 0, called |-> FALSE, nextStop |-> NULL]

\* The bus has been created by an admin and given a driver; route r1 has two
\* stops 160 m apart, route r2 one stop at the place of r1's second.  The behaviour begins in one of the
\* three quiescent states of the bus: no session was ever started (the bus has
\* no route yet), startSharing(b1, d1, r1) has completed, or that start and a
\* stopSharing(b1, d1) have completed.
SeedStates == {"fresh", "sharing", "stopped"}

SeedStops ==
  {[id |-> "s1", routeId |-> "r1", stopOrder |-> 1, latitude |-> 0],
   [id |-> "s2", routeId |-> "r1", stopOrder |-> 2, latitude |-> 8],
   [id |-> "s3", routeId |-> "r2", stopOrder |-> 1, latitude |-> 8]}

SeedBus(s) ==
  [driverId |-> "d1", isActive |-> TRUE,
   currentRouteId |-> IF s = "fresh" THEN NULL ELSE "r1"]

SeedLocations(s) ==
  IF s = "fresh" THEN {}
  ELSE {[NewRow(SeedId, "b1", "d1", 0, NONE, "r1") EXCEPT !.isLocationSharing = (s = "sharing")]}

SeedTrips(s) ==
  IF s = "fresh" THEN {}
  ELSE {[id |-> SeedId, busId |-> "b1", driverId |-> "d1", routeId |-> "r1",
         status |-> IF s = "sharing" THEN "active" ELSE "completed",
         ended |-> (s = "stopped"), totalDistanceKm |-> NONE,
         totalDurationMinutes |-> IF s = "stopped" THEN 1 ELSE NONE,
         averageSpeedKmh |-> NONE]}

SeedEvents(s) ==
  LET started == [event |-> "locationSharingStarted",
                  data |-> [busId |-> "b1", driverId |-> "d1", tripId |-> SeedId]]
      stopped == [event |-> "locationSharingStopped",
                  data |-> [busId |-> "b1", driverId |-> "d1", tripId |-> 0]]
  IN CASE s = "fresh" -> <<>>
       [] s = "sharing" -> <<started>>
       [] OTHER -> <<started, stopped>>

Init ==
  /\ busStops = SeedStops
  /\ \E s \in SeedStates :
       /\ buses = [b \in Buses |-> SeedBus(s)]
       /\ liveLocations = SeedLocations(s)
       /\ tripLogs = SeedTrips(s)
       /\ events = SeedEvents(s)
  /\ locationHistory = <<>>
  /\ req = [r \in Reqs |-> IdleReq]
  /\ nreq = 0
  /\ locator = NoLocate
  /\ estimator = NoEstimate
  /\ hub = NoHub

\* a request reaches its handler (validation passed); requests are numbered
\* in arrival order
Arrive(r, kind, user, busId, routeId, lat, speed) ==
  /\ r = nreq + 1
  /\ r \in Reqs
  /\ Cardinality({x \in Reqs : InFlight(x)}) < MaxInFlight
  /\ nreq' = r
  /\ req' = NoteOverlaps([req EXCEPT ![r] =
       [IdleReq EXCEPT !.kind = kind, !.user = user, !.busId = busId,
                       !.routeId = routeId, !.latitude = lat, !.speedKmh = speed,
                       !.activeAtArrival = Sharing(busId),
                       !.rowAtArrival = (RowOf(busId) # {}),
                       !.pc = CASE kind = "start" -> "s_findBus"
                                [] kind = "stop" -> "p_findBus"
                                [] OTHER -> "u_findLoc"]], r)
  /\ UNCHANGED <<buses, busStops, liveLocations, tripLogs, locationHistory, events, side>>

ArriveStart == \E r \in Reqs, u \in Drivers, b \in Buses, rt \in RouteInputs :
                 Arrive(r, "start", u, b, rt, 0, NONE)
ArriveStop == \E r \in Reqs, u \in Drivers, b \in Buses :
                 Arrive(r, "stop", u, b, NULL, 0, NONE)
ArriveUpdate == \E r \in Reqs, u \in Drivers, b \in Buses, lat \in Positions, sp \in SpeedInputs :
                 Arrive(r, "update", u, b, NULL, lat, sp)

\* ---- startLocationSharing ----------------------------------------------
\* Bus.findByPk, then the checks on the bus
StartFindBus(r) ==
  /\ req[r].pc = "s_findBus"
  /\ LET rq == req[r]
         busId == rq.busId IN
     req' = [req EXCEPT ![r] =
       IF busId \notin DOMAIN buses THEN Respond(rq, "BusNotFound")
       ELSE IF buses[busId].driverId # rq.user THEN Respond(rq, "AccessDenied")
       ELSE IF ~buses[busId].isActive THEN Respond(rq, "BusInactive")
       ELSE [rq EXCEPT !.pc = "s_findLoc", !.busRouteId = buses[busId].currentRouteId]]
  /\ UNCHANGED <<buses, busStops, liveLocations, tripLogs, locationHistory, events, nreq, side>>

\* LiveBusLocation.findByBusId, the "already sharing" check, and the lookup of
\* the route (Route.findByPk reads a table nothing writes)
StartFindLoc(r) ==
  /\ req[r].pc = "s_findLoc"
  /\ LET rq == req[r]
         existingLocation == findByBusId(rq.busId)
         finalRouteId == IF rq.routeId # NULL THEN rq.routeId ELSE rq.busRouteId IN
     req' = [req EXCEPT ![r] =
       IF existingLocation # {} /\ (\E l \in existingLocation : l.isLocationSharing)
       THEN Respond(rq, "AlreadySharing")
       ELSE IF finalRouteId # NULL /\ finalRouteId \notin Routes THEN Respond(rq, "RouteNotFound")
       ELSE [rq EXCEPT !.pc = "s_createTrip", !.finalRouteId = finalRouteId]]
  /\ UNCHANGED <<buses, busStops, liveLocations, tripLogs, locationHistory, events, nreq, side>>

\* TripLog.routeId is allowNull: false
TripLogInvalid(routeId) == routeId = NULL

\* TripLog.create({busId, driverId, routeId, startedAt, status: 'active'})
TripLogCreate(id, busId, driverId, routeId) ==
  tripLogs \cup {[id |-> id, busId |-> busId, driverId |-> driverId,
                  routeId |-> routeId, status |-> "active", ended |-> FALSE,
                  totalDistanceKm |-> NONE, totalDurationMinutes |-> NONE,
                  averageSpeedKmh |-> NONE]}

StartCreateTrip(r) ==
  /\ req[r].pc = "s_createTrip"
  /\ LET rq == req[r] IN
     IF TripLogInvalid(rq.finalRouteId)
     THEN /\ req' = [req EXCEPT ![r] = Respond(rq, "InternalError")]
          /\ UNCHANGED tripLogs
     ELSE /\ tripLogs' = TripLogCreate(r, rq.busId, rq.user, rq.finalRouteId)
          /\ req' = [req EXCEPT ![r] = [rq EXCEPT !.pc = "s_createLoc", !.tripId = r,
                                                  !.writes = @ + 1]]
  /\ UNCHANGED <<buses, busStops, liveLocations, locationHistory, events, nreq, side>>

\* LiveBusLocation.create; on success, either bus.save() is awaited next or
\* the event is emitted and the response sent
StartCreateLoc(r) ==
  /\ req[r].pc = "s_createLoc"
  /\ LET rq == req[r] IN
     IF UniqueBusIdViolated(rq.busId)
     THEN /\ req' = [req EXCEPT ![r] = Respond(rq, "DuplicateEntry")]
          /\ UNCHANGED <<liveLocations, events>>
     ELSE LET newLocs == liveLocations \cup
                           {NewRow(r, rq.busId, rq.user, 0, NONE, rq.finalRouteId)}
              saveBus == rq.routeId # NULL /\ rq.routeId # rq.busRouteId
              rq1 == [rq EXCEPT !.writes = @ + 1] IN
          /\ liveLocations' = newLocs
          /\ IF saveBus
             THEN /\ req' = NoteFlips([req EXCEPT ![r] = [rq1 EXCEPT !.pc = "s_saveBus"]], newLocs, r)
                  /\ UNCHANGED events
             ELSE /\ req' = NoteFlips([req EXCEPT ![r] =
                                Respond([rq1 EXCEPT !.emitted = @ + 1], "ok")], newLocs, r)
                  /\ events' = emitToAll("locationSharingStarted",
                                 [busId |-> rq.busId, driverId |-> rq.user, tripId |-> rq.tripId])
  /\ UNCHANGED <<buses, busStops, tripLogs, locationHistory, nreq, side>>

\* bus.currentRouteId = routeId; bus.save(); then the event and the response
StartSaveBus(r) ==
  /\ req[r].pc = "s_saveBus"
  /\ LET rq == req[r] IN
     /\ buses' = [buses EXCEPT ![rq.busId].currentRouteId = rq.routeId]
     /\ events' = emitToAll("locationSharingStarted",
                    [busId |-> rq.busId, driverId |-> rq.user, tripId |-> rq.tripId])
     /\ req' = [req EXCEPT ![r] =
                  Respond([rq EXCEPT !.writes = @ + 1, !.emitted = @ + 1], "ok")]
  /\ UNCHANGED <<busStops, liveLocations, tripLogs, locationHistory, nreq, side>>

\* ---- stopLocationSharing -----------------------------------------------
\* Bus.findByPk and the assignment check
StopFindBus(r) ==
  /\ req[r].pc = "p_findBus"
  /\ LET rq == req[r] IN
     req' = [req EXCEPT ![r] =
       IF rq.busId \notin DOMAIN buses \/ buses[rq.busId].driverId # rq.user
       THEN Respond(rq, "AccessDenied")
       ELSE [rq EXCEPT !.pc = "p_findLoc"]]
  /\ UNCHANGED <<buses, busStops, liveLocations, tripLogs, locationHistory, events, nreq, side>>

\* LiveBusLocation.findByBusId
StopFindLoc(r) ==
  /\ req[r].pc = "p_findLoc"
  /\ LET rq == req[r] IN
     req' = [req EXCEPT ![r] = [rq EXCEPT !.pc = "p_findTrip",
                                 !.location = {AsInstance(l) : l \in findByBusId(rq.busId)}]]
  /\ UNCHANGED <<buses, busStops, liveLocations, tripLogs, locationHistory, events, nreq, side>>

\* TripLog.findOne({where: {busId, driverId, status: 'active'}}): the ids of
\* the rows it may return (no ORDER BY), 0 for null
findActiveTrip(busId, driverId) ==
  LET found == {t \in tripLogs : t.busId = busId /\ t.driverId = driverId /\ t.status = "active"}
  IN IF found = {} THEN {0} ELSE {t.id : t \in found}

\* TripLog.findOne, then the "not sharing" check
StopFindTrip(r) ==
  /\ req[r].pc = "p_findTrip"
  /\ LET rq == req[r] IN
     \E activeTrip \in findActiveTrip(rq.busId, rq.user) :
       req' = [req EXCEPT ![r] =
         IF rq.location = {} \/ (\E l \in rq.location : ~l.isLocationSharing)
         THEN Respond(rq, "NotSharing")
         ELSE [rq EXCEPT !.pc = "p_saveLoc", !.activeTrip = activeTrip]]
  /\ UNCHANGED <<buses, busStops, liveLocations, tripLogs, locationHistory, events, nreq, side>>

\* location.isLocationSharing = false; location.save()
StopSaveLoc(r) ==
  /\ req[r].pc = "p_saveLoc"
  /\ LET rq == req[r]
         location == CHOOSE l \in rq.location : TRUE
         newLocs == saveLocation([location EXCEPT !.isLocationSharing = FALSE,
                                                  !.dirty = {"isLocationSharing"}])
         rq1 == [rq EXCEPT !.writes = @ + 1] IN
     /\ liveLocations' = newLocs
     /\ IF rq.activeTrip # 0
        THEN /\ req' = NoteFlips([req EXCEPT ![r] = [rq1 EXCEPT !.pc = "p_endTrip"]], newLocs, r)
             /\ UNCHANGED events
        ELSE /\ req' = NoteFlips([req EXCEPT ![r] =
                          Respond([rq1 EXCEPT !.emitted = @ + 1], "ok")], newLocs, r)
             /\ events' = emitToAll("locationSharingStopped",
                            [busId |-> rq.busId, driverId |-> rq.user, tripId |-> 0])
  /\ UNCHANGED <<buses, busStops, tripLogs, locationHistory, nreq, side>>

\* a number that JavaScript takes for true: neither null/undefined nor 0
Truthy(v) == v # NONE /\ v # 0

\* the minutes a trip may have lasted, rounded: Math.round((endedAt - startedAt) / 60000)
TripMinutes == {0, 1}

\* stopLocationSharing calls activeTrip.endTrip() without arguments: endData = {}
NoEndData == [totalDistanceKm |-> NONE, averageSpeedKmh |-> NONE]

\* TripLog.prototype.endTrip(endData) on a trip whose status is 'active', the
\* trip having lasted `minutes`
endTripFields(t, endData, minutes) ==
  LET distance == IF Truthy(endData.totalDistanceKm) THEN endData.totalDistanceKm
                  ELSE t.totalDistanceKm
      average == IF Truthy(endData.averageSpeedKmh) THEN endData.averageSpeedKmh
                 ELSE IF Truthy(distance) /\ Truthy(minutes) THEN (distance * 60) \div minutes
                 ELSE t.averageSpeedKmh
  IN [t EXCEPT !.status = "completed", !.ended = TRUE, !.totalDistanceKm = distance,
               !.totalDurationMinutes = minutes, !.averageSpeedKmh = average]

\* endTrip on the instance read by findOne, and its save()
endTrip(id, minutes) ==
  {IF t.id = id THEN endTripFields(t, NoEndData, minutes) ELSE t : t \in tripLogs}

StopEndTrip(r) ==
  /\ req[r].pc = "p_endTrip"
  /\ LET rq == req[r] IN
     /\ \E minutes \in TripMinutes : tripLogs' = endTrip(rq.activeTrip, minutes)
     /\ events' = emitToAll("locationSharingStopped",
                    [busId |-> rq.busId, driverId |-> rq.user, tripId |-> 0])
     /\ req' = [req EXCEPT ![r] =
                  Respond([rq EXCEPT !.writes = @ + 1, !.emitted = @ + 1], "ok")]
  /\ UNCHANGED <<buses, busStops, liveLocations, locationHistory, nreq, side>>

\* ---- updateLocation -----------------------------------------------------
\* updateLocation without its "location sharing not active" guard
UpdateFindLoc_NoSessionCheck(r) ==
  /\ req[r].pc = "u_findLoc"
  /\ LET rq == req[r]
         found == RowOf(rq.busId) IN
     req' = [req EXCEPT ![r] =
       IF found # {} /\ (\E l \in found : l.driverId # rq.user)
       THEN Respond(rq, "AccessDenied")
       ELSE [rq EXCEPT !.pc = "u_upsert", !.accepted = TRUE,
                       !.finalRouteId = IF found = {} THEN NULL
                                        ELSE (CHOOSE l \in found : TRUE).currentRouteId]]
  /\ UNCHANGED <<buses, busStops, liveLocations, tripLogs, locationHistory, events, nreq, side>>

\* LiveBusLocation.findByBusId, then the session and the owner checks
UpdateFindLoc(r) ==
  /\ req[r].pc = "u_findLoc"
  /\ LET rq == req[r]
         found == findByBusId(rq.busId) IN
     req' = [req EXCEPT ![r] =
       IF found = {} \/ (\E l \in found : ~l.isLocationSharing)
       THEN Respond(rq, "NotActive")
       ELSE LET location == CHOOSE l \in found : TRUE IN
            IF location.driverId # rq.user THEN Respond(rq, "AccessDenied")
            ELSE [rq EXCEPT !.pc = "u_upsert", !.accepted = TRUE,
                            !.finalRouteId = location.currentRouteId]]
  /\ UNCHANGED <<buses, busStops, liveLocations, tripLogs, locationHistory, events, nreq, side>>

\* LiveBusLocation.updateLocation, first half: the upsert
UpdateUpsert(r) ==
  /\ req[r].pc = "u_upsert"
  /\ LET rq == req[r]
         data == [latitude |-> rq.latitude, speedKmh |-> OrZero(rq.speedKmh),
                  driverId |-> rq.user, currentRouteId |-> rq.finalRouteId,
                  isLocationSharing |-> TRUE]
         existed == RowOf(rq.busId) # {}
         newLocs == upsert(r, rq.busId, data)
         location == AsInstance(upsertRow(r, rq.busId, data)) IN
     /\ liveLocations' = newLocs
     /\ \E created \in CreatedOutcomes(existed) :
          req' = NoteFlips([req EXCEPT ![r] =
                   [rq EXCEPT !.pc = IF created THEN "u_history" ELSE "u_recompute",
                              !.location = {location}, !.writes = @ + 1]], newLocs, r)
  /\ UNCHANGED <<buses, busStops, tripLogs, locationHistory, events, nreq, side>>

\* LiveBusLocation.updateLocation, second half (when !created):
\* location.updateNextStop(); location.save()
UpdateRecompute(r) ==
  /\ req[r].pc = "u_recompute"
  /\ LET rq == req[r]
         location == updateNextStop(CHOOSE l \in rq.location : TRUE) IN
     /\ liveLocations' = saveLocation(location)
     /\ req' = [req EXCEPT ![r] =
                  [rq EXCEPT !.pc = "u_history", !.location = {[location EXCEPT !.dirty = {}]},
                             !.writes = IF location.dirty = {} THEN @ ELSE @ + 1]]
  /\ UNCHANGED <<buses, busStops, tripLogs, locationHistory, events, nreq, side>>

\* the record updateLocation hands to LocationHistory.create; 0 is a null id
HistoryRecord(rq) ==
  [tripLogId |-> 0, busId |-> rq.busId, latitude |-> rq.latitude,
   speedKmh |-> OrZero(rq.speedKmh)]

\* LocationHistory.tripLogId is allowNull: false
notNullViolation(rec) == rec.tripLogId = 0

\* LocationHistory.create and what follows it: updatedLocation.updateNextStop()
\* (not saved), the locationUpdate event, the response.  A rejected create
\* throws into the catch block.
UpdateHistory(r) ==
  /\ req[r].pc = "u_history"
  /\ LET rq == req[r]
         rec == HistoryRecord(rq) IN
     IF notNullViolation(rec)
     THEN /\ req' = [req EXCEPT ![r] = Respond(rq, "InternalError")]
          /\ UNCHANGED <<locationHistory, events>>
     ELSE LET updatedLocation == updateNextStop(CHOOSE l \in rq.location : TRUE) IN
          /\ locationHistory' = Append(locationHistory, rec)
          /\ events' = emitToAll("locationUpdate",
                         [busId |-> rq.busId, latitude |-> updatedLocation.latitude,
                          speedKmh |-> updatedLocation.speedKmh,
                          etaToNextStop |-> updatedLocation.etaToNextStop])
          /\ req' = [req EXCEPT ![r] =
                       Respond([rq EXCEPT !.writes = @ + 1, !.emitted = @ + 1], "ok")]
  /\ UNCHANGED <<buses, busStops, liveLocations, tripLogs, nreq, side>>

Next ==
  \/ ArriveStart \/ ArriveStop \/ ArriveUpdate
  \/ \E r \in Reqs : StartFindBus(r)
  \/ \E r \in Reqs : StartFindLoc(r)
  \/ \E r \in Reqs : StartCreateTrip(r)
  \/ \E r \in Reqs : StartCreateLoc(r)
  \/ \E r \in Reqs : StartSaveBus(r)
  \/ \E r \in Reqs : StopFindBus(r)
  \/ \E r \in Reqs : StopFindLoc(r)
  \/ \E r \in Reqs : StopFindTrip(r)
  \/ \E r \in Reqs : StopSaveLoc(r)
  \/ \E r \in Reqs : StopEndTrip(r)
  \/ \E r \in Reqs : UpdateFindLoc(r)
  \/ \E r \in Reqs : UpdateUpsert(r)
  \/ \E r \in Reqs : UpdateRecompute(r)
  \/ \E r \in Reqs : UpdateHistory(r)

Spec == Init /\ [][Next]_vars

\* ---- the stop locator on its own ------------------------------------------
\* BusStop.findNextStop over every small table of stops and every position.
\* The stops of a route carry the orders 1, 2, ... in the order of their ids
\* (stop_order is unique within a route); their places are free, so that the
\* order along the route and the distance to the bus are independent.
MaxStops == 3
StopNames == <<"s1", "s2", "s3", "s4", "s5">>
StopIds == {StopNames[i] : i \in 1..MaxStops}

\* places 20 m, 100 m and 120 m apart
LocatorPositions == {0, 1, 6, 7, 12}

StopRank(id) == CHOOSE i \in 1..Len(StopNames) : StopNames[i] = id

\* the tables of stops: each stop is absent or at a place on a route
StopTables ==
  {{[id |-> id, routeId |-> f[id][1], latitude |-> f[id][2],
     stopOrder |-> Cardinality({j \in present : f[j][1] = f[id][1] /\ StopRank(j) <= StopRank(id)})]
      : id \in present}
    : present \in SUBSET StopIds, f \in [StopIds -> Routes \X LocatorPositions]}

InitLocator ==
  /\ busStops \in StopTables
  /\ \E routeId \in Routes, lat \in LocatorPositions :
       locator = [NoLocate EXCEPT !.routeId = routeId, !.latitude = lat]
  /\ buses = [b \in Buses |-> SeedBus("fresh")]
  /\ liveLocations = {}
  /\ tripLogs = {}
  /\ events = <<>>
  /\ locationHistory = <<>>
  /\ req = [r \in Reqs |-> IdleReq]
  /\ nreq = 0
  /\ estimator = NoEstimate
  /\ hub = NoHub

\* BusStop.findNextStop(routeId, currentLat, currentLng)
Locate ==
  /\ ~locator.called
  /\ locator' = [locator EXCEPT !.called = TRUE,
                                !.nextStop = findNextStop(locator.routeId, locator.latitude)]
  /\ UNCHANGED <<buses, busStops, liveLocations, tripLogs, locationHistory, events, req, nreq,
                 estimator, hub>>

NextLocator == Locate

SpecLocator == InitLocator /\ [][NextLocator]_vars

\* ---- the ETA estimator on its own -----------------------------------------
\* The entry points of ETACalculator, and the ETA of the derived location view
\* (getBusLocation, getActiveLocations), over small distances, speeds and
\* histories.  The samples drawn are also the speeds of the bus's history
\* records, oldest first.
MaxSamples == 2
SampleInputs == {NONE, 0, 4, 20, 130}
DistanceInputs == {NONE, -StepMeters, 0, StepMeters, 8 * StepMeters}

RECURSIVE SeqsUpTo(_, _)
SeqsUpTo(S, n) ==
  IF n = 0 THEN {<<>>}
  ELSE LET shorter == SeqsUpTo(S, n - 1)
       IN shorter \cup {Append(q, x) : q \in shorter, x \in S}

Reverse(q) == [i \in 1..Len(q) |-> q[Len(q) + 1 - i]]

\* LocationHistory.findAll({where: {busId}, order: [['recordedAt', 'DESC']],
\* limit: 10}): the history is kept in the order of recording
recentHistory(busId) ==
  LET newestFirst == Reverse(SelectSeq(locationHistory, LAMBDA h : h.busId = busId))
  IN SubSeq(newestFirst, 1, IF Len(newestFirst) < HistoryLimit THEN Len(newestFirst)
                            ELSE HistoryLimit)

\* recentHistory.map(h => h.speedKmh).filter(speed => speed && speed > 0)
recentSpeeds(busId) ==
  LET history == recentHistory(busId)
  IN SelectSeq([i \in 1..Len(history) |-> history[i].speedKmh],
               LAMBDA speed : Truthy(speed) /\ speed > 0)

\* the etaToNextStop of the derived view of a row whose next stop is set
etaData(location) ==
  LET nextStop == CHOOSE st \in StopById(location.nextStopId) : TRUE
  IN estimateTimeToStop(location.latitude, nextStop.latitude, location.speedKmh,
                        recentSpeeds(location.busId))

\* the view of a row without a next stop carries no computed ETA
NotComputed == [NoETA EXCEPT !.status = "absent"]

\* the row of a session at a place, with what updateNextStop derives there
SessionRow(lat, speed) ==
  LET row == NewRow(SeedId, "b1", "d1", lat, speed, "r1")
      inst == updateNextStop(AsInstance(row))
  IN SaveFields(row, inst, inst.dirty)

InitEstimator ==
  /\ busStops = SeedStops
  /\ \E distance \in DistanceInputs, samples \in SeqsUpTo(SampleInputs, MaxSamples),
        currentSpeed \in SampleInputs, lat \in Positions :
       /\ estimator = [NoEstimate EXCEPT !.distance = distance, !.samples = samples,
                                         !.currentSpeed = currentSpeed, !.busLatitude = lat]
       /\ liveLocations = {SessionRow(lat, currentSpeed)}
       /\ locationHistory = [i \in 1..Len(samples) |->
                               [tripLogId |-> SeedId, busId |-> "b1", latitude |-> lat,
                                speedKmh |-> samples[i]]]
  /\ buses = [b \in Buses |-> SeedBus("sharing")]
  /\ tripLogs = SeedTrips("sharing")
  /\ events = SeedEvents("sharing")
  /\ req = [r \in Reqs |-> IdleReq]
  /\ nreq = 0
  /\ locator = NoLocate
  /\ hub = NoHub

Estimated(entry, result) ==
  /\ estimator.entry = "none"
  /\ estimator' = [estimator EXCEPT !.entry = entry, !.result = result]
  /\ UNCHANGED <<buses, busStops, liveLocations, tripLogs, locationHistory, events, req, nreq,
                 locator, hub>>

CalculateETA ==
  Estimated("calculateETA", calculateETA(estimator.distance, <<estimator.currentSpeed, 1>>))

CalculateSmoothedETA ==
  Estimated("calculateSmoothedETA", calculateSmoothedETA(estimator.samples, estimator.distance))

EstimateTimeToStop ==
  Estimated("estimateTimeToStop",
            estimateTimeToStop(estimator.busLatitude, estimator.stopLatitude,
                               estimator.currentSpeed, estimator.samples))

\* getBusLocation (and the map of getActiveLocations) on the bus's row
GetBusLocation ==
  \E location \in findByBusId("b1") :
    Estimated("getBusLocation",
              IF location.nextStopId # NULL THEN etaData(location) ELSE NotComputed)

NextEstimator == CalculateETA \/ CalculateSmoothedETA \/ EstimateTimeToStop \/ GetBusLocation

SpecEstimator == InitEstimator /\ [][NextEstimator]_vars

\* ---- the socket hub on its own --------------------------------------------
\* The hub serves the socket events of its observers and the calls of its
\* callers: the three emitToAll calls of the location controller and
\* sendEmergencyAlert.  The store is that of a bus that never shared, is
\* sharing, or has stopped.
InitHub ==
  /\ busStops = SeedStops
  /\ \E st \in SeedStates :
       /\ buses = [b \in Buses |-> SeedBus(st)]
       /\ liveLocations = SeedLocations(st)
       /\ tripLogs = SeedTrips(st)
       /\ events = SeedEvents(st)
  /\ locationHistory = <<>>
  /\ req = [r \in Reqs |-> IdleReq]
  /\ nreq = 0
  /\ locator = NoLocate
  /\ estimator = NoEstimate
  /\ hub = NoHub

HubStep(h) ==
  /\ hub' = h
  /\ UNCHANGED <<buses, busStops, liveLocations, tripLogs, locationHistory, events, req, nreq,
                 locator, estimator>>

\* the authentication middleware and the 'connection' handler
Connect(c) ==
  /\ hub.sockets[c] = "new"
  /\ HubStep([hub EXCEPT !.sockets[c] = "connected",
                          !.sent = {Message(c, "connected", NULL)},
                          !.emitted = {Message(c, "connected", NULL)},
                          !.op = HubOp("connect", c, NULL)])

\* SocketService.subscribeToBus(socket, busId); sendBusStatus runs up to its
\* await
SubscribeToBus(c, busId) ==
  /\ hub.sockets[c] = "connected"
  /\ IF busId = NULL
     THEN HubStep([hub EXCEPT !.sent = {}, !.emitted = {},
                              !.op = HubOp("subscribeToBus", c, busId)])
     ELSE /\ pendingReads(hub, c, HubBusIds) < MaxPendingReads
          /\ HubStep([hub EXCEPT
               !.busSubscribers = [b \in DOMAIN @ \cup {busId} |->
                                     IF b = busId THEN subscribersOf(hub, b) \cup {c} ELSE @[b]],
               !.pending[<<c, busId>>] = @ + 1,
               !.sent = {Message(c, "subscribedToBus", busId)},
               !.emitted = {Message(c, "subscribedToBus", busId)},
               !.op = HubOp("subscribeToBus", c, busId),
               !.interested = @ \cup {<<c, busId>>}])

\* the busStatus of sendBusStatus's three branches: the row found, no row,
\* and the catch of a failed read
busStatus(c, busId, failed) ==
  [Message(c, "busStatus", busId) EXCEPT
     !.isActive = ~failed /\ \E l \in findByBusId(busId) : l.isLocationSharing,
     !.error = failed]

\* sendBusStatus whose catch only logs
SendBusStatus_SilentCatch(c, busId, failed) ==
  /\ hub.pending[<<c, busId>>] > 0
  /\ LET status == IF failed THEN {} ELSE {busStatus(c, busId, failed)}
     IN HubStep([hub EXCEPT !.pending[<<c, busId>>] = @ - 1,
                            !.sent = IF hub.sockets[c] = "connected" THEN status ELSE {},
                            !.emitted = status,
                            !.op = HubOp("sendBusStatus", c, busId)])

\* SocketService.sendBusStatus after its read of the store, which yields a
\* row or none, or fails; an emit on a closed socket is lost
SendBusStatus(c, busId, failed) ==
  /\ hub.pending[<<c, busId>>] > 0
  /\ LET status == {busStatus(c, busId, failed)}
     IN HubStep([hub EXCEPT !.pending[<<c, busId>>] = @ - 1,
                            !.sent = IF hub.sockets[c] = "connected" THEN status ELSE {},
                            !.emitted = status,
                            !.op = HubOp("sendBusStatus", c, busId)])

\* SocketService.unsubscribeFromBus(socket, busId)
UnsubscribeFromBus(c, busId) ==
  /\ hub.sockets[c] = "connected"
  /\ IF busId = NULL \/ busId \notin DOMAIN hub.busSubscribers
     THEN HubStep([hub EXCEPT !.sent = {}, !.emitted = {},
                              !.op = HubOp("unsubscribeFromBus", c, busId),
                              !.interested = @ \ {<<c, busId>>}])
     ELSE HubStep([hub EXCEPT
            !.busSubscribers = removeSubscriber(@, busId, c),
            !.sent = {Message(c, "unsubscribedFromBus", busId)},
            !.emitted = {Message(c, "unsubscribedFromBus", busId)},
            !.op = HubOp("unsubscribeFromBus", c, busId),
            !.interested = @ \ {<<c, busId>>}])

\* handleDisconnect that leaves its loop after the first set it cleaned
RECURSIVE removeEverywhere_FirstOnly(_, _, _)
removeEverywhere_FirstOnly(m, keys, socket) ==
  IF keys = {} THEN m
  ELSE LET b == CHOOSE k \in keys : TRUE
       IN IF socket \in m[b] THEN removeSubscriber(m, b, socket)
          ELSE removeEverywhere_FirstOnly(m, keys \ {b}, socket)

\* the Map after handleDisconnect's loop over its entries
RECURSIVE removeEverywhere(_, _, _)
removeEverywhere(m, keys, socket) ==
  IF keys = {} THEN m
  ELSE LET b == CHOOSE k \in keys : TRUE
       IN removeEverywhere(removeSubscriber(m, b, socket), keys \ {b}, socket)

\* SocketService.handleDisconnect(socket)
Disconnect(c) ==
  /\ hub.sockets[c] = "connected"
  /\ HubStep([hub EXCEPT
       !.sockets[c] = "closed",
       !.busSubscribers = removeEverywhere(@, DOMAIN @, c),
       !.sent = {}, !.emitted = {},
       !.op = HubOp("disconnect", c, NULL),
       !.interested = {p \in @ : p[1] # c}])

\* socketService.emitToAll(event, {busId, ...}) of startLocationSharing,
\* stopLocationSharing and updateLocation
EmitToAll(event, busId) ==
  HubStep([hub EXCEPT !.sent = hubEmitToAll(hub, event, busId),
                      !.emitted = hubEmitToAll(hub, event, busId),
                      !.op = HubOp(event, NULL, busId)])

\* SocketService.sendEmergencyAlert(message, busId)
SendEmergencyAlert(busId) ==
  LET alert == IF busId # NULL
               THEN emitToBusSubscribers(hub, busId, "emergencyAlert")
               ELSE hubEmitToAll(hub, "emergencyAlert", NULL)
  IN HubStep([hub EXCEPT !.sent = alert, !.emitted = alert,
                         !.op = HubOp("sendEmergencyAlert", NULL, busId)])

NextHub ==
  \/ \E c \in Sockets : Connect(c)
  \/ \E c \in Sockets, busId \in HubBusInputs : SubscribeToBus(c, busId)
  \/ \E c \in Sockets, busId \in HubBusIds, failed \in BOOLEAN : SendBusStatus(c, busId, failed)
  \/ \E c \in Sockets, busId \in HubBusInputs : UnsubscribeFromBus(c, busId)
  \/ \E c \in Sockets : Disconnect(c)
  \/ \E event \in ControllerEvents, busId \in Buses : EmitToAll(event, busId)
  \/ \E busId \in HubBusInputs : SendEmergencyAlert(busId)

SpecHub == InitHub /\ [][NextHub]_vars

\* every read of the store that sendBusStatus awaits settles: the promise
\* resolves or rejects
HubFairness ==
  \A p \in HubPairs : WF_vars(\E failed \in BOOLEAN : SendBusStatus(p[1], p[2], failed))

\* The subscriptions on their own: the hub of a bus that is sharing (b1) and
\* of a bus without a row (b2), serving the socket events of two observers
\* that have connected.
InitHubLive ==
  /\ busStops = SeedStops
  /\ buses = [b \in Buses |-> SeedBus("sharing")]
  /\ liveLocations = SeedLocations("sharing")
  /\ tripLogs = SeedTrips("sharing")
  /\ events = SeedEvents("sharing")
  /\ locationHistory = <<>>
  /\ req = [r \in Reqs |-> IdleReq]
  /\ nreq = 0
  /\ locator = NoLocate
  /\ estimator = NoEstimate
  /\ hub = [NoHub EXCEPT !.sockets = [c \in Sockets |-> "connected"]]

NextHubLive ==
  \/ \E c \in Sockets, busId \in HubBusInputs : SubscribeToBus(c, busId)
  \/ \E c \in Sockets, busId \in HubBusIds, failed \in BOOLEAN : SendBusStatus(c, busId, failed)
  \/ \E c \in Sockets, busId \in HubBusIds : UnsubscribeFromBus(c, busId)
  \/ \E c \in Sockets : Disconnect(c)

SpecHubLive == InitHubLive /\ [][NextHubLive]_vars /\ HubFairness

\* ---- the bus administration and the drivers' sessions --------------------
\* The admin's bus endpoints, each taken in one piece, beside the drivers'
\* stop and position requests for bus b1.  Bus b1 is sharing in d1's session;
\* bus b2 has no driver and never shared.
FleetBuses == {"b1", "b2"}

InitFleet ==
  /\ busStops = SeedStops
  /\ buses = [b \in FleetBuses |->
               IF b = "b1" THEN SeedBus("sharing")
               ELSE [driverId |-> NULL, isActive |-> TRUE, currentRouteId |-> NULL]]
  /\ liveLocations = SeedLocations("sharing")
  /\ tripLogs = SeedTrips("sharing")
  /\ events = SeedEvents("sharing")
  /\ locationHistory = <<>>
  /\ req = [r \in Reqs |-> IdleReq]
  /\ nreq = 0
  /\ locator = NoLocate
  /\ estimator = NoEstimate
  /\ hub = NoHub

\* Bus.findOne({where: {driverId, isActive: true}}): the buses it may return
\* (no ORDER BY), NULL for none
findActiveBusOf(driverId) ==
  LET found == {b \in DOMAIN buses : buses[b].driverId = driverId /\ buses[b].isActive}
  IN IF found = {} THEN {NULL} ELSE found

\* PUT /api/buses/:id/assign-driver with an active driver: Bus.prototype.assignDriver
\* throws when the driver has another active bus, and saves otherwise
AssignDriver(busId, driverId) ==
  /\ busId \in DOMAIN buses
  /\ \E existingBus \in findActiveBusOf(driverId) :
       buses' = IF existingBus # NULL /\ existingBus # busId THEN buses
                ELSE [buses EXCEPT ![busId].driverId = driverId]
  /\ UNCHANGED <<busStops, liveLocations, tripLogs, locationHistory, events, req, nreq, side>>

\* PUT /api/buses/:id/unassign-driver: Bus.prototype.unassignDriver
UnassignDriver(busId) ==
  /\ busId \in DOMAIN buses
  /\ buses' = [buses EXCEPT ![busId].driverId = NULL]
  /\ UNCHANGED <<busStops, liveLocations, tripLogs, locationHistory, events, req, nreq, side>>

\* PUT /api/buses/:id with isActive in the body
UpdateBus(busId, isActive) ==
  /\ busId \in DOMAIN buses
  /\ buses' = [buses EXCEPT ![busId].isActive = isActive]
  /\ UNCHANGED <<busStops, liveLocations, tripLogs, locationHistory, events, req, nreq, side>>

\* deleteBus's guard `bus.liveLocation && bus.liveLocation.isLocationSharing`:
\* liveLocation is the Array that the hasMany include yields, an Array is
\* truthy, and its property isLocationSharing is undefined
hasActiveLocationSharing(liveLocation) == FALSE

\* DELETE /api/buses/:id, taken while no driver's request is being handled:
\* bus.destroy() and ON DELETE CASCADE on the bus's row and trips
DeleteBus(busId) ==
  /\ busId \in DOMAIN buses
  /\ \A r \in Reqs : ~InFlight(r)
  /\ IF hasActiveLocationSharing(RowOf(busId))
     THEN UNCHANGED <<buses, liveLocations, tripLogs>>
     ELSE /\ buses' = [b \in DOMAIN buses \ {busId} |-> buses[b]]
          /\ liveLocations' = {l \in liveLocations : l.busId # busId}
          /\ tripLogs' = {t \in tripLogs : t.busId # busId}
  /\ UNCHANGED <<busStops, locationHistory, events, req, nreq, side>>

NextFleet ==
  \/ \E b \in FleetBuses, d \in Drivers : AssignDriver(b, d)
  \/ \E b \in FleetBuses : UnassignDriver(b)
  \/ \E b \in FleetBuses, isActive \in BOOLEAN : UpdateBus(b, isActive)
  \/ \E b \in FleetBuses : DeleteBus(b)
  \/ ArriveStop \/ ArriveUpdate
  \/ \E r \in Reqs : StopFindBus(r)
  \/ \E r \in Reqs : StopFindLoc(r)
  \/ \E r \in Reqs : StopFindTrip(r)
  \/ \E r \in Reqs : StopSaveLoc(r)
  \/ \E r \in Reqs : StopEndTrip(r)
  \/ \E r \in Reqs : UpdateFindLoc(r)
  \/ \E r \in Reqs : UpdateUpsert(r)
  \/ \E r \in Reqs : UpdateRecompute(r)
  \/ \E r \in Reqs : UpdateHistory(r)

SpecFleet == InitFleet /\ [][NextFleet]_vars

\* ---- the administration of the stops -------------------------------------
\* The stop endpoints of the route controller and of the bus controller, as
\* two admins call them, each handler split at its reads and writes of the
\* bus_stops table.  Bus b1 runs on route r1, and the stops are those of r1:
\* the index, validateStopOrder and findByRouteId are all keyed by the route,
\* so the stops of another route are rows these handlers neither read nor
\* write.  A new stop takes an id that no row and no handler holds.
Admins == {"a1", "a2"}
AdminRoutes == {"r1"}
StopOrderInputs == {1, 2, 3}

\* the stops that exist or are being added at one time
MaxAdminStops == 2
AdminStopIds == {StopNames[i] : i \in 1..MaxAdminStops}

IdleAdmin == [pc |-> "idle", routeId |-> NULL, stopId |-> NULL, stopOrder |-> 0,
              remaining |-> <<>>]

InitStops ==
  /\ busStops = {s \in SeedStops : s.routeId \in AdminRoutes}
  /\ buses = [b \in Buses |-> SeedBus("sharing")]
  /\ liveLocations = SeedLocations("sharing")
  /\ tripLogs = SeedTrips("sharing")
  /\ events = SeedEvents("sharing")
  /\ locationHistory = <<>>
  /\ req = [a \in Admins |-> IdleAdmin]
  /\ nreq = 0
  /\ locator = NoLocate
  /\ estimator = NoEstimate
  /\ hub = NoHub

AdminStep(a, rq) ==
  /\ req' = [req EXCEPT ![a] = rq]
  /\ UNCHANGED <<buses, liveLocations, tripLogs, locationHistory, events, nreq, side>>

\* the unique index on (route_id, stop_order) turned off
UniqueOrderViolated_NoIndex(id, routeId, stopOrder) == FALSE

\* the unique index on (route_id, stop_order): the row `id` would share its
\* route and order with another row
UniqueOrderViolated(id, routeId, stopOrder) ==
  \E s \in busStops : s.id # id /\ s.routeId = routeId /\ s.stopOrder = stopOrder

\* BusStop.validateStopOrder(routeId, stopOrder, excludeId) throws
stopOrderExists(routeId, stopOrder, excludeId) ==
  \E s \in busStops : s.routeId = routeId /\ s.stopOrder = stopOrder /\ s.id # excludeId

\* the ids a new row may take: held by no row and by no handler
FreshStopIds ==
  {id \in AdminStopIds :
     /\ \A s \in busStops : s.id # id
     /\ \A a \in Admins : /\ req[a].stopId # id
                            /\ \A i \in 1..Len(req[a].remaining) : req[a].remaining[i].id # id}

\* the id (a UUID) that BusStop.create will give its row
NewStopId == CHOOSE f \in FreshStopIds : \A g \in FreshStopIds : StopRank(f) <= StopRank(g)

\* POST /api/routes/:routeId/stops up to BusStop.create
RouteAddBusStop(a, routeId, stopOrder) ==
  /\ req[a].pc = "idle"
  /\ ~stopOrderExists(routeId, stopOrder, NULL)
  /\ FreshStopIds # {}
  /\ AdminStep(a, [IdleAdmin EXCEPT !.pc = "create", !.routeId = routeId,
                                     !.stopId = NewStopId, !.stopOrder = stopOrder])
  /\ UNCHANGED busStops

\* POST /api/buses/:id/stops up to BusStop.create: the order is the number of
\* the route's stops plus one
BusAddBusStop(a, busId, routeId) ==
  /\ req[a].pc = "idle"
  /\ busId \in DOMAIN buses
  /\ LET targetRouteId == IF buses[busId].currentRouteId # NULL
                          THEN buses[busId].currentRouteId ELSE routeId
     IN /\ targetRouteId \in Routes
        /\ FreshStopIds # {}
        /\ AdminStep(a, [IdleAdmin EXCEPT !.pc = "create", !.routeId = targetRouteId,
                            !.stopId = NewStopId,
                            !.stopOrder = Len(findByRouteId(targetRouteId)) + 1])
  /\ UNCHANGED busStops

\* BusStop.create of either endpoint; a violation of the unique index throws
\* and the handler answers with an error
CreateBusStop(a) ==
  /\ req[a].pc = "create"
  /\ busStops' = IF UniqueOrderViolated(req[a].stopId, req[a].routeId, req[a].stopOrder)
                 THEN busStops
                 ELSE busStops \cup {[id |-> req[a].stopId, routeId |-> req[a].routeId,
                                      stopOrder |-> req[a].stopOrder, latitude |-> 0]}
  /\ AdminStep(a, IdleAdmin)

\* PUT /api/routes/:routeId/stops/:stopId with a stopOrder, up to stop.save()
RouteUpdateBusStop(a, routeId, stopId, stopOrder) ==
  /\ req[a].pc = "idle"
  /\ \E stop \in busStops :
       /\ stop.id = stopId /\ stop.routeId = routeId
       /\ stopOrder # stop.stopOrder
       /\ ~stopOrderExists(routeId, stopOrder, stopId)
  /\ AdminStep(a, [IdleAdmin EXCEPT !.pc = "save", !.routeId = routeId, !.stopId = stopId,
                                     !.stopOrder = stopOrder])
  /\ UNCHANGED busStops

\* instance.save() of a stop whose stopOrder changed: UPDATE ... WHERE id
saveStopOrder(id, stopOrder) ==
  {IF s.id = id THEN [s EXCEPT !.stopOrder = stopOrder] ELSE s : s \in busStops}

\* stop.save() of updateBusStop
SaveBusStop(a) ==
  /\ req[a].pc = "save"
  /\ busStops' = IF UniqueOrderViolated(req[a].stopId, req[a].routeId, req[a].stopOrder)
                 THEN busStops
                 ELSE saveStopOrder(req[a].stopId, req[a].stopOrder)
  /\ AdminStep(a, IdleAdmin)

\* DELETE /api/routes/:routeId/stops/:stopId
RouteDeleteBusStop(a, routeId, stopId) ==
  /\ req[a].pc = "idle"
  /\ \E stop \in busStops : stop.id = stopId /\ stop.routeId = routeId
  /\ busStops' = {s \in busStops : s.id # stopId}
  /\ AdminStep(a, IdleAdmin)

\* DELETE /api/buses/:id/stops/:stopId up to busStop.destroy()
BusRemoveBusStop(a, busId, stopId) ==
  /\ req[a].pc = "idle"
  /\ busId \in DOMAIN buses
  /\ \E busStop \in busStops :
       /\ busStop.id = stopId
       /\ ~(buses[busId].currentRouteId # NULL /\ busStop.routeId # buses[busId].currentRouteId)
       /\ busStops' = busStops \ {busStop}
       /\ AdminStep(a, [IdleAdmin EXCEPT !.pc = "findRemaining", !.routeId = busStop.routeId,
                                          !.stopOrder = busStop.stopOrder])

\* removeBusStop: BusStop.findByRouteId(busStop.routeId); the stops its loop
\* will renumber, in the order read
FindRemaining(a) ==
  /\ req[a].pc = "findRemaining"
  /\ LET remainingStops == findByRouteId(req[a].routeId)
         later(s) == s.stopOrder > req[a].stopOrder
     IN AdminStep(a, [req[a] EXCEPT !.pc = "reorder",
                                    !.remaining = SelectSeq(remainingStops, later)])
  /\ UNCHANGED busStops

\* removeBusStop's loop: one remainingStops[i].save() with the order read
\* minus one, or the end of the loop; a failed save ends the handler
Reorder(a) ==
  /\ req[a].pc = "reorder"
  /\ IF req[a].remaining = <<>>
     THEN /\ AdminStep(a, IdleAdmin)
          /\ UNCHANGED busStops
     ELSE LET stop == Head(req[a].remaining)
          IN IF UniqueOrderViolated(stop.id, stop.routeId, stop.stopOrder - 1)
             THEN /\ AdminStep(a, IdleAdmin)
                  /\ UNCHANGED busStops
             ELSE /\ busStops' = saveStopOrder(stop.id, stop.stopOrder - 1)
                  /\ AdminStep(a, [req[a] EXCEPT !.remaining = Tail(@)])

NextStops ==
  \/ \E a \in Admins, rt \in AdminRoutes, o \in StopOrderInputs : RouteAddBusStop(a, rt, o)
  \/ \E a \in Admins, b \in Buses, rt \in AdminRoutes : BusAddBusStop(a, b, rt)
  \/ \E a \in Admins : CreateBusStop(a)
  \/ \E a \in Admins, rt \in AdminRoutes, id \in AdminStopIds, o \in StopOrderInputs :
       RouteUpdateBusStop(a, rt, id, o)
  \/ \E a \in Admins : SaveBusStop(a)
  \/ \E a \in Admins, rt \in AdminRoutes, id \in AdminStopIds : RouteDeleteBusStop(a, rt, id)
  \/ \E a \in Admins, b \in Buses, id \in AdminStopIds : BusRemoveBusStop(a, b, id)
  \/ \E a \in Admins : FindRemaining(a)
  \/ \E a \in Admins : Reorder(a)

SpecStops == InitStops /\ [][NextStops]_vars

\* ---- properties ---------------------------------------------------------
store == <<buses, liveLocations, tripLogs, locationHistory, events>>

Authorized(r) ==
  /\ req[r].busId \in DOMAIN buses
  /\ buses[req[r].busId].driverId = req[r].user
  /\ buses[req[r].busId].isActive

\* the step is taken by request r
Acts(r) == req[r].pc # "idle" /\ req'[r].pc # req[r].pc

UpdatesInFlight(b) == \E r \in Reqs : InFlight(r) /\ req[r].kind = "update" /\ req[r].busId = b

AcceptedUpdates(b) ==
  {r \in Reqs : Done(r) /\ req[r].kind = "update" /\ req[r].busId = b /\ req[r].accepted}

\* C1: under every interleaving of start, report and stop requests, two
\* concurrent starts included, a bus has at most one LiveLocation row, hence
\* at most one active sharing session.
C1_OneRowPerBus ==
  \A b \in Buses : Cardinality(RowOf(b)) <= 1 /\ Cardinality(findByBusId(b)) <= 1

\* two starts raced past the "already sharing" check and the index stopped one
C1_Witness ==
  \E r1, r2 \in Reqs :
    /\ req[r1].kind = "start" /\ Done(r1) /\ req[r1].result = "ok"
    /\ req[r2].kind = "start" /\ Done(r2) /\ req[r2].result = "DuplicateEntry"
    /\ ~req[r2].rowAtArrival
    /\ RowOf(req[r2].busId) # {}

\* C2: after a successful start and a successful stop on a bus (its row is
\* there with sharing=false), a start by the assigned driver with a valid
\* route, not racing with another request that changes the session, succeeds
\* and leaves the row with sharing=true and a new active Trip.
C2_RestartSucceeds ==
  \A r \in Reqs :
    (/\ Done(r) /\ req[r].kind = "start" /\ Authorized(r) /\ req[r].routeId \in Routes
     /\ req[r].rowAtArrival /\ ~req[r].activeAtArrival /\ ~req[r].flipped)
    => /\ req[r].result = "ok"
       /\ \E t \in tripLogs : t.id = req[r].tripId

\* C3: a start for a bus whose session is active from the arrival of the
\* request to its check is rejected, with "already sharing" when the caller
\* is the bus's driver, and no step of it changes the row, the trips, the
\* bus or the history, or publishes an event.
C3_Rejected ==
  \A r \in Reqs :
    (Done(r) /\ req[r].kind = "start" /\ req[r].activeAtArrival /\ ~req[r].flipped)
    => /\ req[r].result \in {"AlreadySharing", "AccessDenied", "BusInactive"}
       /\ (Authorized(r) => req[r].result = "AlreadySharing")
       /\ req[r].writes = 0 /\ req[r].emitted = 0 /\ req[r].tripId = 0

C3_StoreUnchanged ==
  \A r \in Reqs :
    (req[r].kind = "start" /\ req[r].activeAtArrival /\ ~req[r].flipped /\ Acts(r))
    => UNCHANGED store

C3_SecondStartRejected == []C3_Rejected /\ [][C3_StoreUnchanged]_vars

C3_Witness ==
  \E r \in Reqs : /\ Done(r) /\ req[r].kind = "start" /\ req[r].activeAtArrival
                  /\ ~req[r].flipped /\ req[r].result = "AlreadySharing"

\* C4: there are never two active Trips for the same bus and driver.
C4_OneActiveTrip ==
  \A t1, t2 \in tripLogs :
    (t1.status = "active" /\ t2.status = "active"
     /\ t1.busId = t2.busId /\ t1.driverId = t2.driverId) => t1 = t2

\* C5: a position report that found an active session of its own driver
\* completes successfully, having written the row, appended one history
\* record and published one locationUpdate event.
C5_AcceptedReportCompletes ==
  \A r \in Reqs :
    (Done(r) /\ req[r].kind = "update" /\ req[r].accepted)
    => /\ req[r].result = "ok"
       /\ req[r].emitted = 1
       /\ \E i \in 1..Len(locationHistory) : locationHistory[i].busId = req[r].busId
       /\ \E i \in 1..Len(events) : events[i].event = "locationUpdate"

\* what updateNextStop derives from a row's own coordinate and speed
DerivedFromOwn(l) ==
  LET i == updateNextStop(AsInstance(l)) IN
  /\ i.nextStopId = l.nextStopId
  /\ i.distanceToNextStop = l.distanceToNextStop
  /\ i.etaToNextStop = l.etaToNextStop

\* C6: once two (or more) position reports for a bus have completed and none
\* is in flight, the row's next-stop, distance and ETA are those derived from
\* the coordinate and speed stored in that row.
C6_DerivedConsistent ==
  \A b \in Buses :
    (~UpdatesInFlight(b) /\ Cardinality(AcceptedUpdates(b)) >= 2)
    => \A l \in RowOf(b) : DerivedFromOwn(l)

\* C7: once the accepted reports of a bus have completed, the stored
\* coordinate and speed are those of the report that arrived last.
C7_ArrivalOrder ==
  \A b \in Buses :
    (~UpdatesInFlight(b) /\ Cardinality(AcceptedUpdates(b)) >= 2)
    => LET last == CHOOSE r \in AcceptedUpdates(b) : \A x \in AcceptedUpdates(b) : x <= r
       IN \A l \in RowOf(b) : /\ l.latitude = req[last].latitude
                              /\ l.speedKmh = OrZero(req[last].speedKmh)

\* C9: the sharing flag of a bus goes from off (or no row) to on only by the
\* row creation of a start request; a position report never turns it on.
C9_Activates ==
  \A b \in Buses :
    (~Sharing(b) /\ Sharing(b)')
    => \E r \in Reqs : req[r].kind = "start" /\ req[r].pc = "s_createLoc" /\ Acts(r)

C9_OnlyStartActivates == [][C9_Activates]_vars

\* C10: a position report or a stop for a bus that has no active session
\* from the arrival of the request to its check is rejected, and no step of
\* it changes the row, the history, the trips or the bus, or publishes an
\* event.
C10_Rejected ==
  \A r \in Reqs :
    (Done(r) /\ req[r].kind \in {"update", "stop"} /\ ~req[r].activeAtArrival /\ ~req[r].flipped)
    => /\ req[r].result \in {"NotActive", "NotSharing", "AccessDenied"}
       /\ req[r].writes = 0 /\ req[r].emitted = 0

C10_StoreUnchanged ==
  \A r \in Reqs :
    (req[r].kind \in {"update", "stop"} /\ ~req[r].activeAtArrival /\ ~req[r].flipped /\ Acts(r))
    => UNCHANGED store

C10_NoSessionRejected == []C10_Rejected /\ [][C10_StoreUnchanged]_vars

\* a stop and a report were both turned away, the stop on a bus whose row
\* is still there from an ended session
C10_Witness ==
  \E r1, r2 \in Reqs :
    /\ Done(r1) /\ req[r1].kind = "stop" /\ req[r1].result = "NotSharing"
    /\ Done(r2) /\ req[r2].kind = "update" /\ req[r2].result = "NotActive"
    /\ ~req[r1].activeAtArrival /\ ~req[r2].activeAtArrival

\* C11: whenever no position report is in flight for a bus, its reports
\* having been handled one after the other, a row whose stored speed is zero
\* or unknown, or whose next stop is unset, has a null ETA.
C11_EtaNullInvariant ==
  \A b \in Buses :
    (~UpdatesInFlight(b) /\ \A r \in Reqs : ~req[r].overlapped)
    => \A l \in RowOf(b) :
         (l.speedKmh = NONE \/ l.speedKmh = 0 \/ l.nextStopId = NULL) => l.etaToNextStop = NONE

\* C12: when a position report that no other report overlaps has finished
\* writing the row of a bus with a current route, the row's next stop is what
\* the stop locator returns for the coordinate just stored, unset when it
\* returns none.
C12_Refreshed ==
  \A r \in Reqs :
    (req[r].kind = "update" /\ ~req[r].overlapped /\ Acts(r) /\ req'[r].pc = "u_history")
    => \A l \in liveLocations' :
         (l.busId = req[r].busId /\ l.currentRouteId # NULL /\ l.latitude = req[r].latitude)
         => l.nextStopId = findNextStop(l.currentRouteId, l.latitude)

C12_NextStopRefreshed == [][C12_Refreshed]_vars

\* C13: the next stop of a row, when set, is a stop of the row's current
\* route.
C13_NextStopOnRoute ==
  \A l \in liveLocations :
    l.nextStopId # NULL
    => \E st \in busStops : st.id = l.nextStopId /\ st.routeId = l.currentRouteId

\* a row has its next stop while a stop of another route lies beyond the
\* floor as well
C13_Witness ==
  \E l \in liveLocations :
    /\ l.nextStopId # NULL
    /\ \E st \in busStops : /\ st.routeId # l.currentRouteId
                            /\ calculateDistanceTo(st.latitude, l.latitude) > MinStopDistance

\* the stops of the locator's route that lie beyond the floor
FarStops ==
  {st \in busStops : /\ st.routeId = locator.routeId
                     /\ calculateDistanceTo(st.latitude, locator.latitude) > MinStopDistance}

\* C14: findNextStop returns none exactly when the route has no stop more than
\* 100 m away; otherwise it returns a stop of the route that is nearest among
\* those more than 100 m away and, among equally near ones, has the lowest
\* stop order.
C14_StopLocator ==
  locator.called
  => /\ (locator.nextStop = NULL) <=> (FarStops = {})
     /\ locator.nextStop # NULL
        => \E st \in FarStops :
             /\ st.id = locator.nextStop
             /\ \A t \in FarStops :
                  LET ds == calculateDistanceTo(st.latitude, locator.latitude)
                      dt == calculateDistanceTo(t.latitude, locator.latitude)
                  IN ds <= dt /\ (ds = dt => st.stopOrder <= t.stopOrder)

\* the locator chose between two equally distant stops, a third stop of the
\* route lying within the floor
C14_Witness ==
  /\ locator.called /\ locator.nextStop # NULL
  /\ \E s1, s2 \in FarStops :
       /\ s1.id = locator.nextStop /\ s2 # s1
       /\ calculateDistanceTo(s1.latitude, locator.latitude)
            = calculateDistanceTo(s2.latitude, locator.latitude)
  /\ \E st \in busStops : st.routeId = locator.routeId /\ st \notin FarStops

\* C15: a step of a stopSharing request leaves every row in place and changes
\* nothing of it but the sharing flag, which its save clears.
C15_Frame ==
  \A r \in Reqs :
    (req[r].kind = "stop" /\ Acts(r))
    => /\ \A l \in liveLocations :
            \E k \in liveLocations' : k = [l EXCEPT !.isLocationSharing = k.isLocationSharing]
       /\ Cardinality(liveLocations') = Cardinality(liveLocations)
       /\ req[r].pc = "p_saveLoc"
          => \A k \in liveLocations' : k.busId = req[r].busId => ~k.isLocationSharing

C15_StopChangesOnlyFlag == [][C15_Frame]_vars

\* a stop succeeded on a row that a report had moved and given a next stop
C15_Witness ==
  \E r \in Reqs :
    /\ Done(r) /\ req[r].kind = "stop" /\ req[r].result = "ok"
    /\ \E l \in RowOf(req[r].busId) :
         ~l.isLocationSharing /\ l.nextStopId # NULL /\ l.latitude # 0

\* C16: the trip that a stopSharing request closes is no longer active, has
\* its end time, and has its total distance, total duration and average speed
\* set.
C16_Closed ==
  \A r \in Reqs :
    (req[r].kind = "stop" /\ req[r].pc = "p_endTrip" /\ Acts(r))
    => \A t \in tripLogs' :
         t.id = req[r].activeTrip
         => /\ t.status = "completed" /\ t.ended
            /\ t.totalDistanceKm # NONE
            /\ t.totalDurationMinutes # NONE
            /\ t.averageSpeedKmh # NONE

C16_TripClosed == [][C16_Closed]_vars

\* C17: calculateSmoothedETA, given a positive distance and no sample in
\* (0, 120) km/h, estimates at 25 km/h and returns a confidence other than
\* "high".
C17_FallbackDowngraded ==
  (/\ estimator.entry = "calculateSmoothedETA"
   /\ estimator.distance > 0
   /\ Len(SelectSeq(estimator.samples, PlausibleSpeed)) = 0)
  => /\ estimator.result.speedKmh = AssumedSpeedKmh * 100
     /\ estimator.result.confidence # "high"

LowAnswer(result) ==
  result.eta = NONE /\ result.durationMinutes = 0 /\ result.confidence = "low"

NoDistance == estimator.distance = NONE \/ estimator.distance <= 0

\* C19 as stated: calculateETA and calculateSmoothedETA with a distance that
\* is 0, negative or unknown, and estimateTimeToStop with the bus at the
\* stop's coordinate, all return a null ETA, duration 0 and confidence "low".
C19_ZeroDistanceEveryEntry ==
  /\ (estimator.entry \in {"calculateETA", "calculateSmoothedETA"} /\ NoDistance)
     => LowAnswer(estimator.result)
  /\ (estimator.entry = "estimateTimeToStop" /\ estimator.busLatitude = estimator.stopLatitude)
     => LowAnswer(estimator.result)

\* C19 amended: calculateETA and calculateSmoothedETA with a distance that is
\* 0, negative or unknown return a null ETA, duration 0 and confidence "low",
\* whatever the samples; estimateTimeToStop with the bus at the stop's
\* coordinate returns the fixed one-minute "arriving" answer with confidence
\* "high".
C19_ZeroDistance ==
  /\ (estimator.entry \in {"calculateETA", "calculateSmoothedETA"} /\ NoDistance)
     => LowAnswer(estimator.result)
  /\ (estimator.entry = "estimateTimeToStop" /\ estimator.busLatitude = estimator.stopLatitude)
     => /\ estimator.result.eta = 60 /\ estimator.result.durationMinutes = 1
        /\ estimator.result.confidence = "high" /\ estimator.result.status = "arriving"

\* calculateSmoothedETA answered a negative distance with plausible samples
C19_Witness ==
  /\ estimator.entry = "calculateSmoothedETA"
  /\ estimator.distance < NONE
  /\ Len(SelectSeq(estimator.samples, PlausibleSpeed)) > 0
  /\ LowAnswer(estimator.result)

StatusCalls(h, p) ==
  {m \in h.emitted : m.event = "busStatus" /\ m.socket = p[1] /\ m.busId = p[2]}

\* a subscribeToBus with a bus id leaves the socket in that bus's set
C21_Registers ==
  (hub.op.name = "subscribeToBus" /\ hub.op.busId # NULL)
    => hub.op.socket \in subscribersOf(hub, hub.op.busId)

\* a sendBusStatus call that ends makes one busStatus call on its socket for
\* its bus, and nothing else makes one
C21_OneStatusPerRead ==
  \A p \in HubPairs :
    IF hub'.op = HubOp("sendBusStatus", p[1], p[2])
    THEN /\ hub'.pending[p] = hub.pending[p] - 1
         /\ Cardinality(StatusCalls(hub', p)) = 1
         /\ hub'.emitted = StatusCalls(hub', p)
    ELSE /\ hub'.pending[p] >= hub.pending[p]
         /\ StatusCalls(hub', p) = {}

\* the snapshot of a bus that is not sharing says so, and so does the
\* snapshot of a failed read
C21_NotSharing ==
  \A m \in hub.emitted :
    m.event = "busStatus" =>
      /\ ~Sharing(m.busId) => ~m.isActive
      /\ m.error => ~m.isActive
      /\ (m.isActive => Sharing(m.busId))

\* C21: every subscribeToBus with a bus id puts the socket into that bus's
\* subscriber set and leads to one busStatus sent to that socket, whether the
\* read of the store finds a row, finds none or fails; for a bus that is not
\* sharing the busStatus has isActive = FALSE.
C21_SubscribeSnapshot ==
  /\ [](C21_Registers /\ C21_NotSharing)
  /\ [][C21_OneStatusPerRead]_vars
  /\ \A p \in HubPairs :
       (hub.pending[p] > 0) ~> (hub.op = HubOp("sendBusStatus", p[1], p[2]))

\* the last read in flight for a subscribed socket and a bus that is not
\* sharing has been answered "not sharing", without an error
C21_Witness ==
  \E p \in HubPairs :
    /\ hub.op = HubOp("sendBusStatus", p[1], p[2])
    /\ hub.pending[p] = 0
    /\ p[1] \in subscribersOf(hub, p[2])
    /\ ~Sharing(p[2])
    /\ \E m \in hub.sent : m.event = "busStatus" /\ ~m.isActive /\ ~m.error

\* handleDisconnect of socket c took the step
Disconnected(c) == hub.sockets[c] = "connected" /\ hub'.op = HubOp("disconnect", c, NULL)

C22_Step ==
  \A c \in Sockets :
    Disconnected(c) =>
      /\ \A b \in HubBusIds : c \notin subscribersOf(hub', b)
      /\ connectedUsers(hub') = connectedUsers(hub) \ {c}
      /\ \A d \in Sockets \ {c}, b \in HubBusIds :
           (d \in subscribersOf(hub', b)) <=> (d \in subscribersOf(hub, b))

\* C22: after handleDisconnect(socket), whatever was subscribed and
\* unsubscribed before, the socket is in no bus's subscriber set and not among
\* the connected users, and every other socket is subscribed to what it was.
C22_DisconnectCleans == [][C22_Step]_vars

\* a socket that had asked for a bus, its snapshot still being read, has
\* gone; the other socket is still subscribed to both buses
C22_Witness ==
  \E c \in Sockets :
    /\ hub.op = HubOp("disconnect", c, NULL)
    /\ \E b \in HubBusIds : hub.pending[<<c, b>>] > 0
    /\ \A b \in HubBusIds : subscribersOf(hub, b) = Sockets \ {c}

\* C23: no key of busSubscribers has an empty set, and a bus is a key exactly
\* when some observer has asked for it and not taken it back.
C23_NoEmptySets ==
  /\ \A b \in DOMAIN hub.busSubscribers : hub.busSubscribers[b] # {}
  /\ \A b \in HubBusIds :
       (b \in DOMAIN hub.busSubscribers) <=> (\E c \in Sockets : <<c, b>> \in hub.interested)

\* the last subscriber of a bus has unsubscribed and the key is gone, while
\* the other bus keeps its subscriber
C23_Witness ==
  /\ hub.op.name = "unsubscribeFromBus"
  /\ hub.sent # {}
  /\ hub.op.busId \notin DOMAIN hub.busSubscribers
  /\ DOMAIN hub.busSubscribers # {}

\* C24: an emergency alert for bus X is delivered to the connected observers
\* subscribed to X and to nobody else; an alert without a bus is delivered to
\* every connected observer.
C24_AlertScope ==
  hub.op.name = "sendEmergencyAlert" =>
    /\ \A m \in hub.sent : m.event = "emergencyAlert" /\ m.busId = hub.op.busId
    /\ {m.socket : m \in hub.sent} =
         IF hub.op.busId # NULL
         THEN {c \in connectedUsers(hub) : <<c, hub.op.busId>> \in hub.interested}
         ELSE connectedUsers(hub)

\* an alert for one bus reached its subscriber and not the other connected
\* observer
C24_Witness ==
  /\ hub.op.name = "sendEmergencyAlert"
  /\ hub.op.busId # NULL
  /\ hub.sent # {}
  /\ \E c \in connectedUsers(hub) : \A m \in hub.sent : m.socket # c

\* C26: a startLocationSharing call that answers with an error has left no
\* trip of its own in the store and has written nothing, the bus's current
\* route included.
C26_StartAllOrNothing ==
  \A r \in Reqs :
    (Done(r) /\ req[r].kind = "start" /\ req[r].result # "ok") =>
      /\ \A t \in tripLogs : t.id # r
      /\ req[r].writes = 0

\* the driver of the session a request found on its bus: the driver of the
\* bus's row, which only a position report of that driver rewrites
SessionOwner(busId) == {l.driverId : l \in RowOf(busId)}

\* C25: a stop or position request of a driver who does not own the bus's
\* current session is turned away and writes nothing, and a stop request of
\* the owner goes through, whatever the admin did to the bus's driver.
C25_OwnerOnly ==
  \A r \in Reqs :
    (/\ Done(r) /\ req[r].kind \in {"stop", "update"}
     /\ req[r].activeAtArrival /\ ~req[r].flipped
     /\ SessionOwner(req[r].busId) # {}) =>
      /\ req[r].user \notin SessionOwner(req[r].busId)
           => (req[r].result # "ok" /\ req[r].writes = 0)
      /\ (req[r].kind = "stop" /\ req[r].user \in SessionOwner(req[r].busId))
           => req[r].result = "ok"

\* the buses that are sharing are there after the step with their rows and trips
C27_Step ==
  \A b \in DOMAIN buses :
    Sharing(b) =>
      /\ b \in DOMAIN buses'
      /\ \E l \in liveLocations' : l.busId = b
      /\ {t.id : t \in {x \in tripLogs : x.busId = b}}
           \subseteq {t.id : t \in {x \in tripLogs' : x.busId = b}}

\* C27: a bus with an active sharing session survives every step, deleteBus
\* included, and so do its row and its trips.
C27_SharingBusNotDeleted == [][C27_Step]_vars

\* C30: a driver is the assigned driver of at most one active bus.
C30_OneActiveBusPerDriver ==
  \A d \in Drivers :
    Cardinality({b \in DOMAIN buses : buses[b].driverId = d /\ buses[b].isActive}) <= 1

\* C28: no two stops of one route have the same stop order.
C28_UniqueStopOrder ==
  \A s, t \in busStops :
    (s.routeId = t.routeId /\ s.stopOrder = t.stopOrder) => s.id = t.id

\* a create of the bus endpoint was stopped by the index: the route has as
\* many stops as the order it asked for, one of them at that order
C28_Witness ==
  \E a \in Admins :
    /\ req[a].pc = "create"
    /\ UniqueOrderViolated(req[a].stopId, req[a].routeId, req[a].stopOrder)
    /\ req[a].stopOrder = Cardinality({s \in busStops : s.routeId = req[a].routeId}) + 1

\* C29: the stop orders of a route with N stops are 1..N.
C29_DenseStopOrder ==
  \A rt \in Routes :
    LET stops == {s \in busStops : s.routeId = rt}
    IN {s.stopOrder : s \in stops} = 1..Cardinality(stops)
====
